---------------------------- MODULE Spec2Model ----------------------------
(***************************************************************************)
(* Model of the Vstest (.trx) reporter of Catch2,                          *)
(* src/src/catch2/reporters/catch_reporter_vstest.cpp.                     *)
(*                                                                         *)
(* Text is a sequence of pieces, every piece a string: a single character  *)
(* ("a", " ", "[") or a literal the code streams as a whole                *)
(* ("Exception: ").  A std::string is empty exactly when the sequence is.  *)
(*                                                                         *)
(* An unsigned long long count of nanoseconds does not fit TLC's 32-bit    *)
(* integers; it is held in three limbs [m, s, ns] standing for             *)
(* (m * 60 + s) * 10^9 + ns with s < 60 and ns < 10^9.                     *)
(***************************************************************************)
EXTENDS Integers, Sequences, FiniteSets, TLC

VARIABLES
    pc,            \* position of the modelled control flow
    nanos,         \* nanosToDurationString: its argument
    durationString,\* nanosToDurationString: its return value
    rawName,       \* getSanitizedTrxName: its argument
    sanitized,     \* getSanitizedTrxName: [threw, value]
    traversals,    \* the traversal log handed to emitNewTrx
    config,        \* [sourcePathPrefix, reportAttachmentPaths] of m_config
    entropy,       \* what std::random_device yields in this run
    guidCalls,     \* calls of get_random_not_guaranteed_unique_guid so far
    clock,         \* the time of the system clock, [s, ns]
    results,       \* emitNewTrx's local vector of VstestResult
    trx,           \* serialize's local VstestTrxDocument, <<>> when there is none
    stream,        \* the XML events written to the output stream
    status,        \* [st, oob]: how the last serialization ended
    sourceInfo,    \* serializeSourceInfo: [prefix, file, line]
    sourceText,    \* serializeSourceInfo: [threw, text]
    incrementalOutputSupported, \* IncrementalReporterBase::incrementalOutputSupported()
    lastEvent,     \* the reporter event handled last, "none" before the first
    eventCount,    \* reporter events handled so far
    runsEnded      \* testRunEnded events handled so far

sourceVars == <<sourceInfo, sourceText>>

reporterVars == <<incrementalOutputSupported, lastEvent, eventCount, runsEnded>>

vars == <<pc, nanos, durationString, rawName, sanitized, traversals, config,
          entropy, guidCalls, clock, results, trx, stream, status,
          sourceVars, reporterVars>>

(***************************************************************************)
(* Bounds of the model.                                                    *)
(***************************************************************************)
MaxNameLen == 5
MaxTraversals == 3
MaxLogLen == 4

(***************************************************************************)
(* Characters and stream formatting.                                       *)
(***************************************************************************)
\* rawName[ rawName.length() ] is the terminating CharT() of a std::string.
NUL == "NUL"

DigitChars == <<"0", "1", "2", "3", "4", "5", "6", "7", "8", "9">>

RECURSIVE ToDecimal(_)
\* operator<< of an unsigned integer: its decimal digits, no sign, no padding.
ToDecimal(n) ==
    IF n < 10 THEN <<DigitChars[n + 1]>>
    ELSE ToDecimal(n \div 10) \o <<DigitChars[(n % 10) + 1]>>

RECURSIVE Fill(_, _)
Fill(c, k) == IF k <= 0 THEN <<>> ELSE <<c>> \o Fill(c, k - 1)

\* std::setfill(c) << std::setw(w) << n: the digits are padded on the left
\* up to the width w; a width that is not larger than the number of digits
\* (a negative one included) pads nothing.
StreamPadded(c, w, n) ==
    LET digits == ToDecimal(n)
    IN  IF w > Len(digits) THEN Fill(c, w - Len(digits)) \o digits ELSE digits

(***************************************************************************)
(* nanosToDurationString (lines 55-67).                                    *)
(***************************************************************************)
HnsPerSecond == 10000000
SecondsPerMinute == 60
MinutesPerHour == 60
HoursModulus == 60
HoursWidth == 2
MinutesWidth == 2
SecondsWidth == 2
HnsWidth == -7

\* nanos / 100, in limbs [m, s, hns]: (m * 60 + s) * 10^7 + hns.
NanosDiv100(n) == [m |-> n.m, s |-> n.s, hns |-> n.ns \div 100]
\* nanos / 1000000000, in limbs [m, s]: m * 60 + s.
NanosDivBillion(n) == [m |-> n.m, s |-> n.s]

nanosToDurationString(n) ==
    LET totalHns     == NanosDiv100(n)
        totalSeconds == NanosDivBillion(n)
        totalMinutes == totalSeconds.m            \* totalSeconds / 60
        totalHours   == totalMinutes \div MinutesPerHour
    IN  StreamPadded("0", HoursWidth, totalHours % HoursModulus) \o <<":">>
        \o StreamPadded("0", MinutesWidth, totalMinutes % MinutesPerHour) \o <<":">>
        \o StreamPadded("0", SecondsWidth, totalSeconds.s) \o <<".">>  \* totalSeconds % 60
        \o StreamPadded("0", HnsWidth, totalHns.hns % HnsPerSecond)

(***************************************************************************)
(* getSanitizedTrxName (lines 72-96).                                      *)
(***************************************************************************)
\* rawName[i], i counted from 0 as in the code.
CharAt(s, i) == IF i < Len(s) THEN s[i + 1] ELSE NUL

\* rawName.find( c, i ) == std::string::npos
NotFoundFrom(s, c, i) == \A k \in (i + 1)..Len(s) : s[k] # c

WhitespaceChars == {" ", "\t", "\n", "\r"}

RECURSIVE TrimLeft(_)
TrimLeft(s) ==
    IF s # <<>> /\ Head(s) \in WhitespaceChars THEN TrimLeft(Tail(s)) ELSE s

RECURSIVE TrimRight(_)
TrimRight(s) ==
    IF s # <<>> /\ s[Len(s)] \in WhitespaceChars
    THEN TrimRight(SubSeq(s, 1, Len(s) - 1)) ELSE s

\* Catch::trim: the text without its leading and trailing whitespace.
trim(s) == TrimRight(TrimLeft(s))

RECURSIVE SkipTag(_, _)
\* do { i++; } while ( rawName[i - 1] != ']' );
SkipTag(s, i) == IF CharAt(s, i) = "]" THEN i + 1 ELSE SkipTag(s, i + 1)

\* Mutant: the space after a removed tag is never dropped.
SkipSpaceAfterTag_Never(s, i, lastChar) == i

\* if ( lastChar == ' ' && rawName[i] == ' ' ) i++;
SkipSpaceAfterTag(s, i, lastChar) ==
    IF lastChar = " " /\ CharAt(s, i) = " " THEN i + 1 ELSE i

RECURSIVE SanitizeLoop(_, _, _, _)
\* The for loop: i the index, lastChar the last character streamed,
\* resultStream what has been streamed.
SanitizeLoop(s, i, lastChar, resultStream) ==
    IF ~(i < Len(s)) THEN [threw |-> FALSE, value |-> trim(resultStream)]
    ELSE IF CharAt(s, i) = "["
    THEN IF NotFoundFrom(s, "]", i)
         THEN [threw |-> TRUE, value |-> <<>>]      \* CATCH_ERROR
         ELSE SanitizeLoop(s, SkipSpaceAfterTag(s, SkipTag(s, i), lastChar),
                           lastChar, resultStream)
    ELSE IF CharAt(s, i) = ","
    THEN SanitizeLoop(s, i + 1, lastChar, resultStream)
    ELSE SanitizeLoop(s, i + 1, CharAt(s, i), Append(resultStream, CharAt(s, i)))

\* Mutant: a tag that is not closed is dropped silently instead of reported.
getSanitizedTrxName_NoError(name) ==
    LET r == SanitizeLoop(name, 0, NUL, <<>>)
    IN  IF r.threw THEN [threw |-> FALSE, value |-> <<>>] ELSE r

getSanitizedTrxName(name) == SanitizeLoop(name, 0, NUL, <<>>)

(***************************************************************************)
(* get_random_not_guaranteed_unique_guid (lines 30-53).  The 32 random hex *)
(* digits are one value; entropy says what the random device yields on the *)
(* k-th call of a run: a new value each time, or the same value again.     *)
(***************************************************************************)
EntropyKinds == {"fresh", "stuck"}

get_random_not_guaranteed_unique_guid(k) ==
    IF entropy = "fresh" THEN k ELSE 0

(***************************************************************************)
(* IncrementalSectionTraversal and AssertionResult, the passive records    *)
(* the reporter reads.                                                     *)
(***************************************************************************)
\* AssertionResult::isOk by result type.
AssertionIsOk(a) == a.resultType \in {"Ok", "Info", "Warning"}

\* IncrementalSectionTraversal::isComplete: the terminal teardown was reached.
TraversalIsComplete(t) == t.complete

\* IncrementalSectionTraversal::isOk: the traversal is complete and every
\* one of its assertions passed.  Incompleteness "affects OK status": the
\* output block, written "only if the traversal failed, or produced any
\* stdout/stderr text", is always written for an incomplete traversal.
TraversalIsOk(t) ==
    /\ TraversalIsComplete(t)
    /\ \A k \in 1..Len(t.allAssertionsWithExpansions) :
          AssertionIsOk(t.allAssertionsWithExpansions[k])

(***************************************************************************)
(* VstestResult (lines 100-160).                                           *)
(***************************************************************************)
\* VstestResult::VstestResult: two identifiers, no traversal; g calls of the
\* generator were made before.
NewVstestResult(g) ==
    [testId          |-> get_random_not_guaranteed_unique_guid(g + 1),
     testExecutionId |-> get_random_not_guaranteed_unique_guid(g + 2),
     traversals      |-> <<>>]

\* Mutant: the root names are compared with "" standing for a missing one, so
\* that two traversals without a section hierarchy count as the same root.
isNewTraversalRoot_ByDefaultedName(result, traversal) ==
    LET lastTraversal == result.traversals[Len(result.traversals)]
        rootName(t) == IF t.allSectionInfo = <<>> THEN <<>> ELSE t.allSectionInfo[1].name
    IN  \/ result.traversals = <<>>
        \/ rootName(lastTraversal) # rootName(traversal)

isNewTraversalRoot(result, traversal) ==
    LET lastTraversal == result.traversals[Len(result.traversals)]
    IN  \/ result.traversals = <<>>
        \/ lastTraversal.allSectionInfo = <<>>
        \/ traversal.allSectionInfo = <<>>
        \/ lastTraversal.allSectionInfo[1].name # traversal.allSectionInfo[1].name

RECURSIVE GroupLoop(_, _, _)
\* do { newResult.traversals.push_back( traversals[i] ); i++; }
\* while ( i < traversals.size() && !isNewTraversalRoot( newResult, traversals[i] ) );
\* i counts from 0 as in the code.
GroupLoop(travs, i, newResult) ==
    LET pushed == [newResult EXCEPT !.traversals = Append(@, travs[i + 1])]
        j      == i + 1
    IN  IF j < Len(travs) /\ ~isNewTraversalRoot(pushed, travs[j + 1])
        THEN GroupLoop(travs, j, pushed)
        ELSE [result |-> pushed, i |-> j]

RECURSIVE ParseLoop(_, _, _, _)
\* for ( size_t i = 0; i < traversals.size(); ) { ... results.push_back( newResult ); }
ParseLoop(travs, i, res, g) ==
    IF ~(i < Len(travs)) THEN res
    ELSE LET group == GroupLoop(travs, i, NewVstestResult(g))
         IN  ParseLoop(travs, group.i, Append(res, group.result), g + 2)

parseTraversals(travs, g) == ParseLoop(travs, 0, <<>>, g)

\* Mutant: only the first member traversal is asked.
VstestResult_isOk_FirstOnly(result) ==
    result.traversals = <<>> \/ TraversalIsOk(result.traversals[1])

VstestResult_isOk(result) ==
    \A k \in 1..Len(result.traversals) : TraversalIsOk(result.traversals[k])

getRootTestName(result) ==
    IF result.traversals = <<>> \/ result.traversals[1].allSectionInfo = <<>>
    THEN <<>>
    ELSE result.traversals[1].allSectionInfo[1].name

getRootRunName(result) ==
    IF result.traversals = <<>> THEN <<>> ELSE result.traversals[1].testRunName

\* Whether getStartTime, getFinishTime read the clock.
StartTimeIsNow(result) ==
    result.traversals = <<>> \/ ~TraversalIsComplete(result.traversals[1])

FinishTimeIsNow(result) ==
    \/ result.traversals = <<>>
    \/ ~TraversalIsComplete(result.traversals[Len(result.traversals)])

\* now is what std::chrono::system_clock::now() yields if it is called.
getStartTime(result, now) ==
    IF StartTimeIsNow(result) THEN now ELSE result.traversals[1].startTime

getFinishTime(result, now) ==
    IF FinishTimeIsNow(result) THEN now
    ELSE result.traversals[Len(result.traversals)].finishTime

(***************************************************************************)
(* The XML writer (m_xml), a sink of events [k, n, v]: an element started  *)
(* or ended, an attribute, a text; in the stream an event also has d, the  *)
(* number of elements open around it.  A writing function yields what it   *)
(* wrote, [ev, st, g, oob]: the events, how it ended ("ok", "threw" by an  *)
(* exception, "crashed" with the process), the calls of the identifier     *)
(* generator it made, and whether it read an element of an empty vector.   *)
(***************************************************************************)
startElement(name) == [k |-> "start", n |-> name, v |-> <<>>]

endElement == [k |-> "end", n |-> "", v |-> <<>>]

writeAttribute(name, value) == [k |-> "attr", n |-> name, v |-> value]

writeText(text) == [k |-> "text", n |-> "", v |-> text]

\* The events were written and the function returned.
Wrote(events) == [ev |-> events, st |-> "ok", g |-> 0, t |-> 0, oob |-> FALSE]

\* An exception leaves the function: what it wrote before stays written.
Threw(events) == [ev |-> events, st |-> "threw", g |-> 0, t |-> 0, oob |-> FALSE]

\* a, then b: when a does not return, b is not run.
Then(a, b) ==
    IF a.st # "ok" THEN a
    ELSE [ev |-> a.ev \o b.ev, st |-> b.st, g |-> a.g + b.g, t |-> a.t + b.t,
          oob |-> a.oob \/ b.oob]

(***************************************************************************)
(* serializeSourceInfo (lines 434-446): [threw, text].                     *)
(***************************************************************************)
RECURSIVE SlashNormalized(_)
\* stream << ( c == '\\' ? '/' : c ) for every character
SlashNormalized(s) ==
    IF s = <<>> THEN <<>>
    ELSE <<IF Head(s) = "\\" THEN "/" ELSE Head(s)>> \o SlashNormalized(Tail(s))

\* m_sourcePrefix.compare( 0, npos, file, m_sourcePrefix.length() ) == 0:
\* basic_string::compare( pos1, count1, str, pos2 ) compares the prefix with
\* file.substr( pos2 ) and throws std::out_of_range when pos2 > file.size().
PrefixCompareThrows(prefix, file) == Len(prefix) > Len(file)

PrefixCompareEqual(prefix, file) ==
    prefix = SubSeq(file, Len(prefix) + 1, Len(file))

serializeSourceInfo(prefix, file, line) ==
    IF PrefixCompareThrows(prefix, file) THEN [threw |-> TRUE, text |-> <<>>]
    ELSE LET start == IF PrefixCompareEqual(prefix, file) THEN Len(prefix) ELSE 0
         IN  [threw |-> FALSE,
              text  |-> <<"at Catch.Module.Method() in ">>
                        \o SlashNormalized(SubSeq(file, start + 1, Len(file)))
                        \o <<":line ">> \o ToDecimal(line) \o <<"\n">>]

\* Two texts built one after the other: the first exception ends both.
ThenText(a, b) ==
    IF a.threw THEN a
    ELSE IF b.threw THEN b
    ELSE [threw |-> FALSE, text |-> a.text \o b.text]

PlainText(t) == [threw |-> FALSE, text |-> t]

(***************************************************************************)
(* The texts of a traversal (lines 379-432).                               *)
(***************************************************************************)
TerminatedNotice ==
    <<"Test execution terminated unexpectedly before this test completed. Please see redirected output,",
      " if available, for more details.", "\n">>

\* One iteration of the loop of getErrorMessageForTraversal.
AssertionErrorText(a) ==
    IF a.resultType = "ExpressionFailed"
    THEN a.expressionInMacro
         \o (IF a.expression # a.expansion
             THEN <<" as ">> \o a.testMacroName \o <<" ( ">> \o a.expansion
                  \o <<" ) ", "\n">>
             ELSE <<>>)
    ELSE IF a.resultType = "ThrewException"
    THEN <<"Exception: ">> \o a.message \o <<"\n">>
    ELSE IF ~AssertionIsOk(a)
    THEN <<"Failed: ">> \o a.message \o <<"\n">>
    ELSE <<>>

RECURSIVE AssertionErrorTexts(_, _)
AssertionErrorTexts(as, k) ==
    IF k > Len(as) THEN <<>>
    ELSE AssertionErrorText(as[k]) \o AssertionErrorTexts(as, k + 1)

getErrorMessageForTraversal(t) ==
    LET head == (IF ~TraversalIsComplete(t) THEN TerminatedNotice ELSE <<>>)
                \o AssertionErrorTexts(t.allAssertionsWithExpansions, 1)
    IN  IF t.fatalSignalName # <<>>
        THEN ThenText(PlainText(head \o <<"Fatal error: ">> \o t.fatalSignalName \o <<" at ">>),
                      serializeSourceInfo(trx.m_sourcePrefix,
                                          t.fatalSignalSourceInfo.file,
                                          t.fatalSignalSourceInfo.line))
        ELSE PlainText(head)

RECURSIVE AssertionStackTexts(_, _)
AssertionStackTexts(as, k) ==
    IF k > Len(as) THEN PlainText(<<>>)
    ELSE ThenText(serializeSourceInfo(trx.m_sourcePrefix, as[k].file, as[k].line),
                  AssertionStackTexts(as, k + 1))

getStackMessageForTraversal(t) ==
    LET lastSection == t.allSectionInfo[Len(t.allSectionInfo)]
    IN  ThenText(AssertionStackTexts(t.allAssertionsWithExpansions, 1),
                 IF ~TraversalIsComplete(t) /\ t.allSectionInfo # <<>>
                 THEN serializeSourceInfo(trx.m_sourcePrefix,
                                          lastSection.file, lastSection.line)
                 ELSE PlainText(<<>>))

RECURSIVE FullTestNameLoop(_, _)
\* i counts from 0 as in the code
FullTestNameLoop(sections, i) ==
    IF ~(i < Len(sections)) THEN PlainText(<<>>)
    ELSE LET name == getSanitizedTrxName(sections[i + 1].name)
         IN  ThenText([threw |-> name.threw,
                       text  |-> (IF i > 0 THEN <<" / ">> ELSE <<>>) \o name.value],
                      FullTestNameLoop(sections, i + 1))

getFullTestNameForTraversal(t) == FullTestNameLoop(t.allSectionInfo, 0)

(***************************************************************************)
(* VstestTrxDocument: the writing functions (lines 190-377).  A time point *)
(* is [s, ns], seconds and nanoseconds.  Catch::Detail::stringify of a     *)
(* time point is kept as the time point.  g is the number of calls of the  *)
(* identifier generator, c the number of readings of the clock, made       *)
(* before the function is entered; a function returns in g and t the calls *)
(* and the readings it made.                                               *)
(***************************************************************************)
\* What the build and the machine decide: the outcome of an out-of-range
\* read, the order in which the arguments of a call are evaluated
\* (unspecified in C++), and by how many nanoseconds the clock moves from one
\* reading to the next.
OutOfRangeReads == {"abort", "crash", "empty", "garbage"}
ArgumentOrders == {"leftToRight", "rightToLeft"}
ClockTicks == {0, 30}

Builds == [read : OutOfRangeReads, order : ArgumentOrders, tick : ClockTicks]

\* std::chrono::system_clock::now(), after c readings of this serialization
now(build, c) == [s |-> clock.s, ns |-> clock.ns + c * build.tick]

NanosPerSecond == 1000000000

\* 2^64 nanoseconds are (TwoTo64Minutes * 60 + TwoTo64Seconds) * 10^9 + TwoTo64Nanos.
TwoTo64Minutes == 307445734
TwoTo64Seconds == 33
TwoTo64Nanos == 709551616

\* duration_cast<nanoseconds>( finish - start ).count(), a signed count, passed
\* as unsigned long long: a negative count wraps modulo 2^64.  The count is
\* seconds * 10^9 + nanos with 0 <= nanos < 10^9.
ElapsedNanos(start, finish) ==
    LET borrow  == IF finish.ns < start.ns THEN 1 ELSE 0
        seconds == finish.s - start.s - borrow
        rest    == finish.ns - start.ns + borrow * NanosPerSecond
        carry   == IF TwoTo64Nanos + rest >= NanosPerSecond THEN 1 ELSE 0
        wrapped == TwoTo64Seconds + seconds + carry
    IN  IF seconds >= 0
        THEN [m  |-> seconds \div SecondsPerMinute,
              s  |-> seconds % SecondsPerMinute,
              ns |-> rest]
        ELSE [m  |-> TwoTo64Minutes + (wrapped \div SecondsPerMinute),
              s  |-> wrapped % SecondsPerMinute,
              ns |-> TwoTo64Nanos + rest - carry * NanosPerSecond]

writeTimestampAttributes(start, finish) ==
    LET elapsedNanos == ElapsedNanos(start, finish)
    IN  <<writeAttribute("startTime", start),
          writeAttribute("endTime", finish),
          writeAttribute("duration", nanosToDurationString(elapsedNanos))>>

\* startWriteTestResult( testId, testExecutionId, testName ), lines 264-278
startWriteTestResultNamed(testId, testExecutionId, testName) ==
    <<startElement("UnitTestResult"),
      writeAttribute("executionId", testExecutionId),
      writeAttribute("testId", testId),
      writeAttribute("testName", testName),
      writeAttribute("computerName", "localhost"),
      writeAttribute("testType", "13cdc9d9-ddb5-4fa4-a97d-d965ccfc6d4b"),
      writeAttribute("testListId", trx.m_defaultTestListId)>>

\* The name a readable out-of-range element holds: none, or other bytes.
GarbageName(read) == IF read = "empty" THEN <<>> ELSE <<"?">>

\* startWriteTestResult( result ), lines 257-262.  The call binds a reference
\* to the name of allSectionInfo[0]; the name is read when the attribute
\* testName is written, after the element and two attributes.  With no
\* section the element is out of range: a library that checks the index
\* ends the process in allSectionInfo[0], before anything is written;
\* otherwise the read of the name ends the process there, or yields what the
\* memory holds.
startWriteTestResult(result, build) ==
    IF result.traversals[1].allSectionInfo = <<>>
    THEN IF build.read = "abort"
         THEN [ev |-> <<>>, st |-> "crashed", g |-> 0, t |-> 0, oob |-> TRUE]
         ELSE IF build.read = "crash"
         THEN [ev |-> SubSeq(startWriteTestResultNamed(result.testId,
                                 result.testExecutionId, <<>>), 1, 3),
               st |-> "crashed", g |-> 0, t |-> 0, oob |-> TRUE]
         ELSE [ev |-> startWriteTestResultNamed(result.testId, result.testExecutionId,
                                                GarbageName(build.read)),
               st |-> "ok", g |-> 0, t |-> 0, oob |-> TRUE]
    ELSE Wrote(startWriteTestResultNamed(result.testId, result.testExecutionId,
                                         result.traversals[1].allSectionInfo[1].name))

\* the lambda writeIfPresentOr of writeTraversalOutput
writeIfPresentOr(elementName, value, doAlways) ==
    IF doAlways \/ value # <<>>
    THEN <<startElement(elementName), writeText(value), endElement>>
    ELSE <<>>

\* Mutant: the Output element is written for captured text only.
HasOutputElement_OnlyIfCaptured(traversal) ==
    \/ traversal.stdOut # <<>>
    \/ traversal.stdErr # <<>>

\* The condition under which writeTraversalOutput writes the Output element.
HasOutputElement(traversal) ==
    \/ ~TraversalIsOk(traversal)
    \/ traversal.stdOut # <<>>
    \/ traversal.stdErr # <<>>

writeTraversalOutput(traversal) ==
    IF ~HasOutputElement(traversal) THEN Wrote(<<>>)
    ELSE LET captured ==
                 <<startElement("Output")>>
                 \o writeIfPresentOr("StdOut", traversal.stdOut,
                                     ~TraversalIsComplete(traversal))
                 \o writeIfPresentOr("StdErr", traversal.stdErr,
                                     ~TraversalIsComplete(traversal))
             errorMessage == getErrorMessageForTraversal(traversal)
             stackMessage == getStackMessageForTraversal(traversal)
         IN  IF errorMessage.threw \/ stackMessage.threw THEN Threw(captured)
             ELSE IF errorMessage.text # <<>> \/ stackMessage.text # <<>>
             THEN Wrote(captured \o <<startElement("ErrorInfo")>>
                        \o writeIfPresentOr("Message", errorMessage.text, FALSE)
                        \o writeIfPresentOr("StackTrace", stackMessage.text, FALSE)
                        \o <<endElement, endElement>>)
             ELSE Wrote(captured \o <<endElement>>)

\* The arguments of the call of lines 307-310 are two calls of the generator
\* and the name, which can throw: evaluated left to right the identifiers are
\* made before the name, right to left the name comes first and the
\* execution id before the test id.
writeInnerResult(result, traversal, build, g) ==
    LET nameFirst == build.order = "rightToLeft"
        testId   == get_random_not_guaranteed_unique_guid(
                        IF nameFirst THEN g + 2 ELSE g + 1)
        execId   == get_random_not_guaranteed_unique_guid(
                        IF nameFirst THEN g + 1 ELSE g + 2)
        testName == getFullTestNameForTraversal(traversal)
    IN  IF testName.threw
        THEN [Threw(<<>>) EXCEPT !.g = IF nameFirst THEN 0 ELSE 2]
        ELSE Then([Wrote(startWriteTestResultNamed(testId, execId, testName.text)
                         \o <<writeAttribute("parentExecutionId", result.testExecutionId),
                              writeAttribute("resultType", "DataDrivenDataRow")>>
                         \o writeTimestampAttributes(traversal.startTime,
                                                     traversal.finishTime)
                         \o <<writeAttribute("outcome",
                                 IF TraversalIsOk(traversal) THEN "Passed" ELSE "Failed")>>)
                    EXCEPT !.g = 2],
                  Then(writeTraversalOutput(traversal), Wrote(<<endElement>>)))

RECURSIVE InnerResultsLoop(_, _, _, _)
\* for ( const auto& traversal : result.traversals ) writeInnerResult( result, traversal );
InnerResultsLoop(result, k, build, g) ==
    IF k > Len(result.traversals) THEN Wrote(<<>>)
    ELSE LET inner == writeInnerResult(result, result.traversals[k], build, g)
         IN  Then(inner, InnerResultsLoop(result, k + 1, build, g + inner.g))

\* writeTimestampAttributes( result.getStartTime(), result.getFinishTime() ) and
\* the outcome, lines 232-233: each of the two arguments reads the clock if
\* its traversal is incomplete, in the order the build evaluates them.
writeResultTimesAndOutcome(result, build, c) ==
    LET startReads  == IF StartTimeIsNow(result) THEN 1 ELSE 0
        finishReads == IF FinishTimeIsNow(result) THEN 1 ELSE 0
        start  == getStartTime(result,
                      now(build, IF build.order = "rightToLeft"
                                 THEN c + finishReads ELSE c))
        finish == getFinishTime(result,
                      now(build, IF build.order = "rightToLeft"
                                 THEN c ELSE c + startReads))
    IN  [Wrote(writeTimestampAttributes(start, finish)
               \o <<writeAttribute("outcome",
                       IF VstestResult_isOk(result) THEN "Passed" ELSE "Failed")>>)
         EXCEPT !.t = startReads + finishReads]

\* Mutant: every result is written as a data-driven parent.
writeTopLevelResult_AlwaysDataDriven(result, build, g, c) ==
    Then(startWriteTestResult(result, build),
    Then(writeResultTimesAndOutcome(result, build, c),
    Then(Then(Wrote(<<writeAttribute("resultType", "DataDrivenTest")>>),
              InnerResultsLoop(result, 1, build, g)),
         Wrote(<<endElement>>))))

writeTopLevelResult(result, build, g, c) ==
    Then(startWriteTestResult(result, build),
    Then(writeResultTimesAndOutcome(result, build, c),
    Then(IF Len(result.traversals) = 1
         THEN writeTraversalOutput(result.traversals[1])
         ELSE Then(Wrote(<<writeAttribute("resultType", "DataDrivenTest")>>),
                   InnerResultsLoop(result, 1, build, g)),
         Wrote(<<endElement>>))))

RECURSIVE ResultsLoop(_, _, _, _)
\* for ( auto& result : m_results ) if ( !result.traversals.empty() ) ...
ResultsLoop(k, build, g, c) ==
    IF k > Len(trx.m_results) THEN Wrote(<<>>)
    ELSE LET top == IF trx.m_results[k].traversals # <<>>
                    THEN writeTopLevelResult(trx.m_results[k], build, g, c)
                    ELSE Wrote(<<>>)
         IN  Then(top, ResultsLoop(k + 1, build, g + top.g, c + top.t))

writeResults(build, g, c) ==
    Then(Wrote(<<startElement("Results")>>),
         Then(ResultsLoop(1, build, g, c), Wrote(<<endElement>>)))

startWriteTestRun(g) ==
    LET runName == IF trx.m_results = <<>> \/ trx.m_results[1].traversals = <<>>
                   THEN <<>>
                   ELSE trx.m_results[1].traversals[1].testRunName
    IN  [Wrote(<<startElement("TestRun"),
                 writeAttribute("id", get_random_not_guaranteed_unique_guid(g + 1)),
                 writeAttribute("name", runName),
                 writeAttribute("runUser", "Catch2VstestReporter"),
                 writeAttribute("xmlns",
                     "http://microsoft.com/schemas/VisualStudio/TeamTest/2010")>>)
         EXCEPT !.g = 1]

\* lines 203-218: now() is read once; getStartTime() and then getFinishTime()
\* read it again if their traversal is incomplete.
writeTimes(build) ==
    LET hasFirst == trx.m_results # <<>> /\ trx.m_results[1].traversals # <<>>
        last == trx.m_results[Len(trx.m_results)]
        startReads  == IF hasFirst /\ StartTimeIsNow(trx.m_results[1]) THEN 1 ELSE 0
        finishReads == IF hasFirst /\ FinishTimeIsNow(last) THEN 1 ELSE 0
        startTime  == IF hasFirst
                      THEN getStartTime(trx.m_results[1], now(build, 1))
                      ELSE now(build, 0)
        finishTime == IF hasFirst
                      THEN getFinishTime(last, now(build, 1 + startReads))
                      ELSE now(build, 0)
    IN  [Wrote(<<startElement("Times"),
                 writeAttribute("creation", startTime),
                 writeAttribute("queuing", startTime),
                 writeAttribute("start", startTime),
                 writeAttribute("finish", finishTime),
                 endElement>>)
         EXCEPT !.t = 1 + startReads + finishReads]

RECURSIVE TestCategoryItems(_, _)
TestCategoryItems(tags, k) ==
    IF k > Len(tags) THEN <<>>
    ELSE <<startElement("TestCategoryItem"),
           writeAttribute("TestCategory", tags[k]), endElement>>
         \o TestCategoryItems(tags, k + 1)

\* One iteration of the loop of writeTestDefinitions.
writeUnitTest(result) ==
    LET testTags == result.traversals[1].testTags
    IN  <<startElement("UnitTest"),
          writeAttribute("name", getRootTestName(result)),
          writeAttribute("storage", getRootRunName(result)),
          writeAttribute("id", result.testId)>>
        \o (IF testTags # <<>>
            THEN <<startElement("TestCategory")>> \o TestCategoryItems(testTags, 1)
                 \o <<endElement>>
            ELSE <<>>)
        \o <<startElement("Execution"),
             writeAttribute("id", result.testExecutionId), endElement,
             startElement("TestMethod"),
             writeAttribute("codeBase", getRootRunName(result)),
             writeAttribute("adapterTypeName", "executor://mstestadapter/v2"),
             writeAttribute("className", "Catch2.Test"),
             writeAttribute("name", getRootTestName(result)),
             endElement, endElement>>

RECURSIVE TestDefinitionsLoop(_)
TestDefinitionsLoop(k) ==
    IF k > Len(trx.m_results) THEN <<>>
    ELSE writeUnitTest(trx.m_results[k]) \o TestDefinitionsLoop(k + 1)

writeTestDefinitions ==
    Wrote(<<startElement("TestDefinitions")>> \o TestDefinitionsLoop(1)
          \o <<endElement>>)

writeTestLists ==
    Wrote(<<startElement("TestLists"), startElement("TestList"),
            writeAttribute("name", "Default test list for Catch2"),
            writeAttribute("id", trx.m_defaultTestListId),
            endElement, endElement>>)

RECURSIVE TestEntriesLoop(_)
TestEntriesLoop(k) ==
    IF k > Len(trx.m_results) THEN <<>>
    ELSE LET result == trx.m_results[k]
         IN  <<startElement("TestEntry"),
               writeAttribute("testId", result.testId),
               writeAttribute("executionId", result.testExecutionId),
               writeAttribute("testListId", trx.m_defaultTestListId),
               endElement>>
             \o TestEntriesLoop(k + 1)

writeTestEntries ==
    Wrote(<<startElement("TestEntries")>> \o TestEntriesLoop(1) \o <<endElement>>)

RECURSIVE ResultFiles(_, _)
ResultFiles(attachmentPaths, k) ==
    IF k > Len(attachmentPaths) THEN <<>>
    ELSE <<startElement("ResultFile"), writeAttribute("path", attachmentPaths[k]),
           endElement>>
         \o ResultFiles(attachmentPaths, k + 1)

\* Mutant: std::all_of in the place of std::any_of.
writeSummary_AllOf(attachmentPaths) ==
    LET runHasFailures ==
            \A k \in 1..Len(trx.m_results) : ~VstestResult_isOk(trx.m_results[k])
    IN  Wrote(<<startElement("ResultSummary"),
                writeAttribute("outcome", IF runHasFailures THEN "Failed" ELSE "Passed")>>
              \o (IF attachmentPaths # <<>>
                  THEN <<startElement("ResultFiles")>> \o ResultFiles(attachmentPaths, 1)
                       \o <<endElement>>
                  ELSE <<>>)
              \o <<endElement>>)

writeSummary(attachmentPaths) ==
    LET runHasFailures ==
            \E k \in 1..Len(trx.m_results) : ~VstestResult_isOk(trx.m_results[k])
    IN  Wrote(<<startElement("ResultSummary"),
                writeAttribute("outcome", IF runHasFailures THEN "Failed" ELSE "Passed")>>
              \o (IF attachmentPaths # <<>>
                  THEN <<startElement("ResultFiles")>> \o ResultFiles(attachmentPaths, 1)
                       \o <<endElement>>
                  ELSE <<>>)
              \o <<endElement>>)

\* The elements opened less the elements ended by the events lo..hi.
OpenedBy(ev, lo, hi) ==
    Cardinality({j \in lo..hi : ev[j].k = "start"})
    - Cardinality({j \in lo..hi : ev[j].k = "end"})

\* For each of the events lo..hi the number of elements open when it is
\* written, d elements being open before the event lo.
RECURSIVE OpenBefore(_, _, _, _)
OpenBefore(ev, lo, hi, d) ==
    IF lo > hi THEN <<>>
    ELSE IF lo = hi THEN <<d>>
    ELSE LET mid == (lo + hi) \div 2
         IN  OpenBefore(ev, lo, mid, d)
             \o OpenBefore(ev, mid + 1, hi, d + OpenedBy(ev, lo, mid))

\* The writer keeps the elements that are open (m_tags): every event gets d,
\* the number of elements open when it is written.
Nested(ev) ==
    LET open == OpenBefore(ev, 1, Len(ev), 0)
    IN  [k \in 1..Len(ev) |->
            [k |-> ev[k].k, n |-> ev[k].n, v |-> ev[k].v, d |-> open[k]]]

\* The calls of serialize after the construction of trx (lines 180-187).
WriteAll(build, g) ==
    LET run == startWriteTestRun(g)
        times == writeTimes(build)
    IN  Then(run,
        Then(times,
        Then(writeResults(build, g + run.g, times.t),
        Then(writeTestDefinitions,
        Then(writeTestLists,
        Then(writeTestEntries,
        Then(writeSummary(config.reportAttachmentPaths),
             Wrote(<<endElement>>))))))))   \* TestRun

(***************************************************************************)
(* The inputs: section names, source files, assertions and traversals the  *)
(* event-generation side can record.                                       *)
(***************************************************************************)
NameA == <<"A">>
NameB == <<"B">>
NameTagged == <<"s", " ", "[", "t", "]", " ", "x", ",", "y">>
NameUnclosed == <<"b", " ", "[", "t">>

FileShort == <<"f">>
FileUnder == <<"p", "/", "a", "\\", "f">>
FileTail == <<"d", "\\", "p", "/">>

\* the configurations of a run: no prefix and no attachment, a prefix with an
\* attachment, and an attachment under a generator that repeats itself
RunSetups ==
    {[sourcePathPrefix |-> <<>>, reportAttachmentPaths |-> <<>>,
      entropy |-> "fresh"],
     [sourcePathPrefix |-> <<"p", "/">>,
      reportAttachmentPaths |-> <<<<"a", ".", "l", "o", "g">>>>,
      entropy |-> "fresh"],
     [sourcePathPrefix |-> <<>>,
      reportAttachmentPaths |-> <<<<"a", ".", "l", "o", "g">>>>,
      entropy |-> "stuck"]}

SecA == [name |-> NameA, file |-> FileUnder, line |-> 10]
SecB == [name |-> NameB, file |-> FileTail, line |-> 20]
SecTagged == [name |-> NameTagged, file |-> FileUnder, line |-> 21]
SecUnclosed == [name |-> NameUnclosed, file |-> FileUnder, line |-> 11]

AssertionOk ==
    [resultType |-> "Ok", expression |-> <<"x">>, expansion |-> <<"1">>,
     expressionInMacro |-> <<"REQUIRE( x )">>, testMacroName |-> <<"REQUIRE">>,
     message |-> <<>>, file |-> FileUnder, line |-> 12]
AssertionExpressionFailed ==
    [resultType |-> "ExpressionFailed", expression |-> <<"x == 1">>,
     expansion |-> <<"2 == 1">>, expressionInMacro |-> <<"REQUIRE( x == 1 )">>,
     testMacroName |-> <<"REQUIRE">>, message |-> <<>>, file |-> FileShort,
     line |-> 13]
AssertionThrew ==
    [resultType |-> "ThrewException", expression |-> <<>>, expansion |-> <<>>,
     expressionInMacro |-> <<>>, testMacroName |-> <<"REQUIRE">>,
     message |-> <<"boom">>, file |-> FileTail, line |-> 22]

NoSourceInfo == [file |-> <<>>, line |-> 0]

Traversal(sections, assertions, out, err, complete, start, finish) ==
    [allSectionInfo |-> sections, allAssertionsWithExpansions |-> assertions,
     stdOut |-> out, stdErr |-> err, complete |-> complete,
     fatalSignalName |-> <<>>, fatalSignalSourceInfo |-> NoSourceInfo,
     startTime |-> [s |-> start, ns |-> 0],
     finishTime |-> [s |-> finish, ns |-> 0],
     testRunName |-> <<"run">>, testTags |-> <<>>]

\* a passing and a failing run of the test "A"
TPassA == Traversal(<<SecA>>, <<AssertionOk>>, <<>>, <<>>, TRUE, 1, 2)
TFailA == Traversal(<<SecA>>, <<AssertionOk, AssertionExpressionFailed>>,
                    <<>>, <<>>, TRUE, 2, 4)
\* a run of "A" through a section whose name has a tag that is not closed
TUnclosedA == Traversal(<<SecA, SecUnclosed>>, <<>>, <<"o">>, <<>>, TRUE, 4, 5)
\* a standalone pseudo-section: no section hierarchy recorded
TNoSections == Traversal(<<>>, <<AssertionOk>>, <<>>, <<>>, TRUE, 5, 5)
\* a run of "B" that threw, with error output and a tag
TThrewB == [Traversal(<<SecB, SecTagged>>, <<AssertionThrew>>, <<>>, <<"e">>,
                      TRUE, 5, 6)
            EXCEPT !.testTags = <<<<"[", "t", "]">>>>]
\* runs of "B" that never reached the teardown: one silent, one with output
\* and a fatal signal; the finish time was never set
TCrashQuietB == Traversal(<<SecB>>, <<>>, <<>>, <<>>, FALSE, 6, 0)
TCrashLoudB == [Traversal(<<SecB, SecTagged>>, <<AssertionOk>>, <<"o">>, <<>>,
                          FALSE, 7, 0)
                EXCEPT !.fatalSignalName = <<"SIGSEGV">>,
                       !.fatalSignalSourceInfo = [file |-> FileUnder, line |-> 23]]

TraversalSamples ==
    {TPassA, TFailA, TUnclosedA, TNoSections, TThrewB, TCrashQuietB, TCrashLoudB}

\* what decides the grouping: the root name, or none
AggregationSamples == {TPassA, TFailA, TNoSections, TCrashQuietB}

SeqsUpTo(S, n) == UNION {[1..k -> S] : k \in 0..n}

ClockNow == 9

NoDocument == <<>>
NotRun == [st |-> "none", oob |-> FALSE]

(***************************************************************************)
(* emitNewTrx (lines 479-485) and serialize (lines 174-188), step by step. *)
(***************************************************************************)
SourceInfoIdle ==
    /\ sourceInfo = [prefix |-> <<>>, file |-> <<>>, line |-> 0]
    /\ sourceText = [threw |-> FALSE, text |-> <<>>]

\* no reporter event is modelled: emitNewTrx is called once
ReporterIdle ==
    /\ incrementalOutputSupported = FALSE
    /\ lastEvent = "none"
    /\ eventCount = 0
    /\ runsEnded = 0

PureVarsIdle ==
    /\ nanos = [m |-> 0, s |-> 0, ns |-> 0]
    /\ durationString = <<>>
    /\ rawName = <<>>
    /\ sanitized = [threw |-> FALSE, value |-> <<>>]

PipelineIdle ==
    /\ traversals = <<>>
    /\ config = [sourcePathPrefix |-> <<>>, reportAttachmentPaths |-> <<>>]
    /\ entropy = "fresh"
    /\ guidCalls = 0
    /\ clock = [s |-> ClockNow, ns |-> 0]
    /\ results = <<>>
    /\ trx = NoDocument
    /\ stream = <<>>
    /\ status = NotRun

InitRun(logs) ==
    /\ SourceInfoIdle
    /\ ReporterIdle
    /\ pc = "start"
    /\ PureVarsIdle
    /\ traversals \in logs
    /\ \E setup \in RunSetups :
         /\ config = [sourcePathPrefix |-> setup.sourcePathPrefix,
                      reportAttachmentPaths |-> setup.reportAttachmentPaths]
         /\ entropy = setup.entropy
    /\ guidCalls = 0
    /\ clock = [s |-> ClockNow, ns |-> 0]
    /\ results = <<>>
    /\ trx = NoDocument
    /\ stream = <<>>
    /\ status = NotRun

Init == InitRun(SeqsUpTo(TraversalSamples, MaxTraversals))

\* auto results = VstestResult::parseTraversals( traversals );
ParseTraversals ==
    /\ pc = "start"
    /\ results' = parseTraversals(traversals, guidCalls)
    /\ guidCalls' = guidCalls + 2 * Len(results')
    /\ pc' = "parsed"
    /\ UNCHANGED <<sourceVars, reporterVars,
                   nanos, durationString, rawName, sanitized, traversals, config,
                   entropy, clock, trx, stream, status>>

\* The moved-from vector of a move construction is empty.
MovedFrom(v) == <<>>

\* VstestTrxDocument trx{ stream, results, sourcePathPrefix, attachmentPaths };
\* m_results{ std::move( results ) } takes the caller's vector.
ConstructDocument ==
    /\ pc = "parsed"
    /\ trx' = [m_results |-> results,
               m_sourcePrefix |-> config.sourcePathPrefix,
               m_attachmentPaths |-> config.reportAttachmentPaths,
               m_defaultTestListId |-> get_random_not_guaranteed_unique_guid(guidCalls + 1)]
    /\ results' = MovedFrom(results)
    /\ guidCalls' = guidCalls + 1
    /\ pc' = "constructed"
    /\ UNCHANGED <<sourceVars, reporterVars,
                   nanos, durationString, rawName, sanitized, traversals, config,
                   entropy, clock, stream, status>>

\* Some result's first traversal has no section: the name is read out of range.
ReadsOutOfRange ==
    \E k \in 1..Len(trx.m_results) :
        /\ trx.m_results[k].traversals # <<>>
        /\ trx.m_results[k].traversals[1].allSectionInfo = <<>>

\* Some call has two arguments that draw on the generator or on the clock: the
\* two identifiers of a nested record, the two times of an incomplete result.
ArgumentOrderShows ==
    \E k \in 1..Len(trx.m_results) :
        \/ Len(trx.m_results[k].traversals) > 1
        \/ StartTimeIsNow(trx.m_results[k]) /\ FinishTimeIsNow(trx.m_results[k])

\* The builds that can write different documents of trx: builds that differ
\* only in a choice this serialization never comes to write the same events,
\* and one of them stands for all.
BuildsApart ==
    {build \in Builds :
        /\ ReadsOutOfRange \/ build.read = "crash"
        /\ ArgumentOrderShows \/ build.order = "leftToRight"}

\* trx.startWriteTestRun(); ... trx.m_xml.endElement();
WriteDocument ==
    /\ pc = "constructed"
    /\ \E build \in BuildsApart :
         \E w \in {WriteAll(build, guidCalls)} :
             /\ stream' = stream \o Nested(w.ev)
             /\ status' = [st |-> w.st, oob |-> w.oob]
             /\ guidCalls' = guidCalls + w.g
             /\ clock' = now(build, w.t)
    /\ pc' = "written"
    /\ UNCHANGED <<sourceVars, reporterVars,
                   nanos, durationString, rawName, sanitized, traversals, config,
                   entropy, results, trx>>

\* The destructor of the writer ends every element still open, innermost
\* first (the scoped elements of writeTraversalOutput end in the same order).
EndOpenElements(s) ==
    LET open == IF s = <<>> THEN 0
                ELSE s[Len(s)].d + (IF s[Len(s)].k = "start" THEN 1
                                    ELSE IF s[Len(s)].k = "end" THEN -1 ELSE 0)
    IN  s \o [j \in 1..open |-> [k |-> "end", n |-> "", v |-> <<>>, d |-> open - j + 1]]

\* serialize is left, by its return or by the exception, and trx is destroyed;
\* a process that was ended takes no further step.
LeaveSerialize ==
    /\ pc = "written"
    /\ status.st # "crashed"
    /\ trx' = NoDocument
    /\ stream' = EndOpenElements(stream)
    /\ pc' = IF status.st = "ok" THEN "done" ELSE "failed"
    /\ UNCHANGED <<sourceVars, reporterVars,
                   nanos, durationString, rawName, sanitized, traversals, config,
                   entropy, guidCalls, clock, results, status>>

Next == ParseTraversals \/ ConstructDocument \/ WriteDocument \/ LeaveSerialize

Spec == Init /\ [][Next]_vars

\* The aggregation alone, over longer logs.
InitAggregation ==
    /\ SourceInfoIdle
    /\ ReporterIdle
    /\ pc = "start"
    /\ PureVarsIdle
    /\ traversals \in SeqsUpTo(AggregationSamples, MaxLogLen)
    /\ config = [sourcePathPrefix |-> <<>>, reportAttachmentPaths |-> <<>>]
    /\ entropy \in EntropyKinds
    /\ guidCalls = 0
    /\ clock = [s |-> ClockNow, ns |-> 0]
    /\ results = <<>>
    /\ trx = NoDocument
    /\ stream = <<>>
    /\ status = NotRun

NextAggregation == ParseTraversals

SpecAggregation == InitAggregation /\ [][NextAggregation]_vars

(***************************************************************************)
(* nanosToDurationString applied to elapsed times.                         *)
(***************************************************************************)
\* The count is a value of unsigned long long: below 2^64.
FitsUnsignedLongLong(n) ==
    \/ n.m < TwoTo64Minutes
    \/ n.m = TwoTo64Minutes /\ n.s < TwoTo64Seconds
    \/ n.m = TwoTo64Minutes /\ n.s = TwoTo64Seconds /\ n.ns < TwoTo64Nanos

DurationSamples ==
    {n \in [m  : {0, 1, 59, 60, 61, 1439, 1440, 3599, 3600, 3661, TwoTo64Minutes},
            s  : {0, 1, 33, 59},
            ns : {0, 99, 100, 1000000, 709551615, 999999999}] :
        FitsUnsignedLongLong(n)}

InitDuration ==
    /\ SourceInfoIdle
    /\ ReporterIdle
    /\ pc = "duration_in"
    /\ nanos \in DurationSamples
    /\ durationString = <<>>
    /\ rawName = <<>>
    /\ sanitized = [threw |-> FALSE, value |-> <<>>]
    /\ PipelineIdle

FormatDuration ==
    /\ pc = "duration_in"
    /\ durationString' = nanosToDurationString(nanos)
    /\ pc' = "duration_out"
    /\ UNCHANGED <<sourceVars, reporterVars,
                   nanos, rawName, sanitized, traversals, config, entropy,
                   guidCalls, clock, results, trx, stream, status>>

NextDuration == FormatDuration

SpecDuration == InitDuration /\ [][NextDuration]_vars

(***************************************************************************)
(* getSanitizedTrxName applied to display names.                           *)
(***************************************************************************)
NameAlphabet == {"a", " ", "[", "]", ","}

ExampleSection == <<"S", "e", "c", "t", "i", "o", "n", " ", "[", "t", "a", "g", "1", "]", " ", "N", "a", "m", "e", ",", " ", "e", "x", "t", "r", "a">>
ExampleSectionSanitized == <<"S", "e", "c", "t", "i", "o", "n", " ", "N", "a", "m", "e", " ", "e", "x", "t", "r", "a">>
ExampleFoo == <<"f", "o", "o", " ", "[", "x", "]", " ", "[", "y", "]", " ", "b", "a", "r">>
ExampleFooSanitized == <<"f", "o", "o", " ", "b", "a", "r">>
ExampleBroken == <<"b", "r", "o", "k", "e", "n", " ", "[", "t", "a", "g">>

NameExamples ==
    {ExampleSection, ExampleFoo, ExampleBroken, NameTagged, NameUnclosed,
     <<"\t", "a", "[", "x", "]", "\t">>}

InitSanitize ==
    /\ SourceInfoIdle
    /\ ReporterIdle
    /\ pc = "sanitize_in"
    /\ rawName \in SeqsUpTo(NameAlphabet, MaxNameLen) \cup NameExamples
    /\ sanitized = [threw |-> FALSE, value |-> <<>>]
    /\ nanos = [m |-> 0, s |-> 0, ns |-> 0]
    /\ durationString = <<>>
    /\ PipelineIdle

Sanitize ==
    /\ pc = "sanitize_in"
    /\ sanitized' = getSanitizedTrxName(rawName)
    /\ pc' = "sanitize_out"
    /\ UNCHANGED <<sourceVars, reporterVars,
                   nanos, durationString, rawName, traversals, config, entropy,
                   guidCalls, clock, results, trx, stream, status>>

NextSanitize == Sanitize

SpecSanitize == InitSanitize /\ [][NextSanitize]_vars

(***************************************************************************)
(* serializeSourceInfo applied to source paths under a source prefix.      *)
(***************************************************************************)
MaxPathLen == 4
MaxPrefixLen == 2

PathAlphabet == {"p", "/", "\\", "f"}
PrefixAlphabet == {"p", "/"}
LineSamples == {7, 120}

InitSourceInfo ==
    /\ pc = "source_in"
    /\ sourceInfo \in [prefix : SeqsUpTo(PrefixAlphabet, MaxPrefixLen),
                       file   : SeqsUpTo(PathAlphabet, MaxPathLen),
                       line   : LineSamples]
    /\ sourceText = [threw |-> FALSE, text |-> <<>>]
    /\ ReporterIdle
    /\ nanos = [m |-> 0, s |-> 0, ns |-> 0]
    /\ durationString = <<>>
    /\ rawName = <<>>
    /\ sanitized = [threw |-> FALSE, value |-> <<>>]
    /\ PipelineIdle

\* serializeSourceInfo( stream, file, line ) with m_sourcePrefix = prefix
SerializeSourceInfo ==
    /\ pc = "source_in"
    /\ sourceText' = serializeSourceInfo(sourceInfo.prefix, sourceInfo.file,
                                         sourceInfo.line)
    /\ pc' = "source_out"
    /\ UNCHANGED <<sourceInfo, reporterVars, nanos, durationString, rawName,
                   sanitized, traversals, config, entropy, guidCalls, clock,
                   results, trx, stream, status>>

NextSourceInfo == SerializeSourceInfo

SpecSourceInfo == InitSourceInfo /\ [][NextSourceInfo]_vars

(***************************************************************************)
(* VstestReporter: the reporter events (lines 458-477).  Every event that  *)
(* emits calls emitNewTrx, whose steps are the actions ParseTraversals,    *)
(* ConstructDocument, WriteDocument and LeaveSerialize; the next event is  *)
(* handled when the handler of the last one has returned.                  *)
(***************************************************************************)
MaxEvents == 2

\* What getTraversals() and the argument of sectionTraversalEnded can hold.
ReporterLogs ==
    {<<>>, <<TPassA>>, <<TCrashLoudB>>, <<TPassA, TFailA>>,
     <<TPassA, TUnclosedA>>, <<TNoSections>>}

\* resetIncrementalOutput(): the output written so far is discarded.
resetIncrementalOutput == <<>>

\* The reporter is between two events: the handler of the last one returned,
\* or an exception of emitNewTrx left it; the reporter handles the next event
\* in either case.
HandlerReturned == pc \in {"idle", "done", "failed"}

InitReporter ==
    /\ pc = "idle"
    /\ incrementalOutputSupported \in BOOLEAN
    /\ lastEvent = "none"
    /\ eventCount = 0
    /\ runsEnded = 0
    /\ SourceInfoIdle
    /\ PureVarsIdle
    /\ traversals = <<>>
    /\ \E setup \in RunSetups :
         /\ config = [sourcePathPrefix |-> setup.sourcePathPrefix,
                      reportAttachmentPaths |-> setup.reportAttachmentPaths]
         /\ entropy = setup.entropy
    /\ guidCalls = 0
    /\ clock = [s |-> ClockNow, ns |-> 0]
    /\ results = <<>>
    /\ trx = NoDocument
    /\ stream = <<>>
    /\ status = NotRun

\* emitNewTrx( log ) is entered.
EnterEmitNewTrx(log) ==
    /\ traversals' = log
    /\ status' = NotRun
    /\ pc' = "start"

\* An event that does not emit returns at once.
ReturnWithoutOutput ==
    /\ pc' = "idle"
    /\ UNCHANGED <<traversals, status, stream>>

\* Mutant: the output of the last emission is not discarded.
SectionTraversalEnded_NoReset ==
    /\ HandlerReturned
    /\ eventCount < MaxEvents
    /\ lastEvent' = "sectionTraversalEnded"
    /\ eventCount' = eventCount + 1
    /\ IF incrementalOutputSupported
       THEN /\ stream' = stream
            /\ \E log \in ReporterLogs : EnterEmitNewTrx(log)
       ELSE ReturnWithoutOutput
    /\ UNCHANGED <<sourceVars, incrementalOutputSupported, runsEnded, nanos,
                   durationString, rawName, sanitized, config, entropy,
                   guidCalls, clock, results, trx>>

\* VstestReporter::sectionStarting, lines 458-464
SectionStarting ==
    /\ HandlerReturned
    /\ eventCount < MaxEvents
    /\ lastEvent' = "sectionStarting"
    /\ eventCount' = eventCount + 1
    /\ IF incrementalOutputSupported
       THEN /\ stream' = resetIncrementalOutput
            /\ \E log \in ReporterLogs : EnterEmitNewTrx(log)
       ELSE ReturnWithoutOutput
    /\ UNCHANGED <<sourceVars, incrementalOutputSupported, runsEnded, nanos,
                   durationString, rawName, sanitized, config, entropy,
                   guidCalls, clock, results, trx>>

\* VstestReporter::sectionTraversalEnded, lines 466-471
SectionTraversalEnded ==
    /\ HandlerReturned
    /\ eventCount < MaxEvents
    /\ lastEvent' = "sectionTraversalEnded"
    /\ eventCount' = eventCount + 1
    /\ IF incrementalOutputSupported
       THEN /\ stream' = resetIncrementalOutput
            /\ \E log \in ReporterLogs : EnterEmitNewTrx(log)
       ELSE ReturnWithoutOutput
    /\ UNCHANGED <<sourceVars, incrementalOutputSupported, runsEnded, nanos,
                   durationString, rawName, sanitized, config, entropy,
                   guidCalls, clock, results, trx>>

\* VstestReporter::testRunEnded, lines 473-477
TestRunEnded ==
    /\ HandlerReturned
    /\ eventCount < MaxEvents
    /\ lastEvent' = "testRunEnded"
    /\ eventCount' = eventCount + 1
    /\ runsEnded' = runsEnded + 1
    /\ IF ~incrementalOutputSupported
       THEN /\ stream' = stream
            /\ \E log \in ReporterLogs : EnterEmitNewTrx(log)
       ELSE /\ pc' = pc
            /\ UNCHANGED <<traversals, status, stream>>
    /\ UNCHANGED <<sourceVars, incrementalOutputSupported, nanos,
                   durationString, rawName, sanitized, config, entropy,
                   guidCalls, clock, results, trx>>

NextReporter ==
    \/ SectionStarting
    \/ SectionTraversalEnded
    \/ TestRunEnded
    \/ ParseTraversals
    \/ ConstructDocument
    \/ WriteDocument
    \/ LeaveSerialize

SpecReporter == InitReporter /\ [][NextReporter]_vars

(***************************************************************************)
(* Properties of nanosToDurationString.                                    *)
(***************************************************************************)
PadLeft(digits, w) == Fill("0", w - Len(digits)) \o digits

\* HH:MM:SS.fffffff with HH all the whole hours, and 7 digits of 100 ns ticks.
ExpectedDuration(n) ==
    PadLeft(ToDecimal(n.m \div 60), 2) \o <<":">>
    \o PadLeft(ToDecimal(n.m % 60), 2) \o <<":">>
    \o PadLeft(ToDecimal(n.s), 2) \o <<".">>
    \o PadLeft(ToDecimal(n.ns \div 100), 7)

\* C4: every elapsed nanosecond count renders as HH:MM:SS.fffffff, HH the total
\* number of whole hours, MM and SS modulo 60, the fraction exactly 7
\* zero-padded digits of (n / 100) modulo 10,000,000.
C4_DurationIsHoursMinutesSecondsTicks ==
    pc = "duration_out" => durationString = ExpectedDuration(nanos)

(***************************************************************************)
(* Properties of getSanitizedTrxName.                                      *)
(***************************************************************************)
EachOpenHasClose(s) ==
    \A p \in 1..Len(s) : s[p] = "[" => \E q \in (p + 1)..Len(s) : s[q] = "]"

HasUnclosedOpen(s) ==
    \E p \in 1..Len(s) : s[p] = "[" /\ \A q \in (p + 1)..Len(s) : s[q] # "]"

RECURSIVE AfterClose(_)
\* what follows the first "]" of s
AfterClose(s) == IF Head(s) = "]" THEN Tail(s) ELSE AfterClose(Tail(s))

RECURSIVE TagsAndCommasRemoved(_, _)
\* s without its [tag] spans and commas, and without the space that follows a
\* span when the last character kept before it (kept) is a space
TagsAndCommasRemoved(s, kept) ==
    IF s = <<>> THEN <<>>
    ELSE IF Head(s) = "["
    THEN LET rest == AfterClose(s)
         IN  IF kept = " " /\ rest # <<>> /\ Head(rest) = " "
             THEN TagsAndCommasRemoved(Tail(rest), kept)
             ELSE TagsAndCommasRemoved(rest, kept)
    ELSE IF Head(s) = ","
    THEN TagsAndCommasRemoved(Tail(s), kept)
    ELSE <<Head(s)>> \o TagsAndCommasRemoved(Tail(s), Head(s))

\* s from its first to its last character that is not whitespace
Trimmed(s) ==
    LET solid == {p \in 1..Len(s) : s[p] \notin WhitespaceChars}
    IN  IF solid = {} THEN <<>>
        ELSE SubSeq(s, CHOOSE p \in solid : \A q \in solid : p <= q,
                       CHOOSE p \in solid : \A q \in solid : q <= p)

\* C5: for a name in which each "[" has a later "]", the sanitized name is the
\* name without its [tag] spans, without the space after a span that follows a
\* kept space, without commas, trimmed; it holds no "[" and no ",".
C5_SanitizedNameDropsTagsAndCommas ==
    (pc = "sanitize_out" /\ EachOpenHasClose(rawName)) =>
        /\ ~sanitized.threw
        /\ sanitized.value = Trimmed(TagsAndCommasRemoved(rawName, NUL))
        /\ \A p \in 1..Len(sanitized.value) : sanitized.value[p] \notin {"[", ","}
        /\ sanitized.value # <<>> =>
              /\ sanitized.value[1] \notin WhitespaceChars
              /\ sanitized.value[Len(sanitized.value)] \notin WhitespaceChars
        /\ rawName = ExampleSection => sanitized.value = ExampleSectionSanitized
        /\ rawName = ExampleFoo => sanitized.value = ExampleFooSanitized

C5_Witness ==
    /\ pc = "sanitize_out"
    /\ rawName = ExampleFoo
    /\ sanitized = [threw |-> FALSE, value |-> ExampleFooSanitized]

\* C6: sanitizing fails, and yields no name, exactly when the name holds a "["
\* with no "]" after it.
C6_UnclosedTagFails ==
    pc = "sanitize_out" =>
        /\ sanitized.threw <=> HasUnclosedOpen(rawName)
        /\ sanitized.threw => sanitized.value = <<>>
        /\ rawName = ExampleBroken => sanitized.threw

C6_Witness ==
    /\ pc = "sanitize_out"
    /\ rawName = ExampleBroken
    /\ sanitized.threw

(***************************************************************************)
(* Properties of VstestResult::parseTraversals.                            *)
(***************************************************************************)
RECURSIVE Members(_, _)
\* the member lists of res[k..], one after the other
Members(res, k) ==
    IF k > Len(res) THEN <<>> ELSE res[k].traversals \o Members(res, k + 1)

RECURSIVE GroupSizes(_, _)
GroupSizes(res, k) ==
    IF k > Len(res) THEN <<>>
    ELSE <<Len(res[k].traversals)>> \o GroupSizes(res, k + 1)

\* The group the p-th traversal of the input landed in: the first whose
\* members, with those of the groups before, are at least p.
GroupOf(res, p) ==
    CHOOSE r \in 1..Len(res) :
        /\ Len(Members(SubSeq(res, 1, r), 1)) >= p
        /\ Len(Members(SubSeq(res, 1, r - 1), 1)) < p

HasRootName(t) == t.allSectionInfo # <<>>

SameRootName(t, u) ==
    /\ HasRootName(t)
    /\ HasRootName(u)
    /\ t.allSectionInfo[1].name = u.allSectionInfo[1].name

RootNames(travs) ==
    [p \in 1..Len(travs) |->
        IF HasRootName(travs[p]) THEN travs[p].allSectionInfo[1].name ELSE <<"-">>]

\* C1: the groups, one after the other, are the input; no group is empty; two
\* adjacent traversals share a group exactly when both have a root name and
\* the names are equal; root names A, A, B, A give the groups of 2, 1 and 1.
C1_GroupsAreConsecutiveSameRoot ==
    pc = "parsed" =>
        /\ Members(results, 1) = traversals
        /\ \A r \in 1..Len(results) : results[r].traversals # <<>>
        /\ \A p \in 1..(Len(traversals) - 1) :
              (GroupOf(results, p) = GroupOf(results, p + 1))
                  <=> SameRootName(traversals[p], traversals[p + 1])
        /\ RootNames(traversals) = <<NameA, NameA, NameB, NameA>>
              => GroupSizes(results, 1) = <<2, 1, 1>>

C1_Witness ==
    /\ pc = "parsed"
    /\ RootNames(traversals) = <<NameA, NameA, NameB, NameA>>
    /\ GroupSizes(results, 1) = <<2, 1, 1>>

(***************************************************************************)
(* Reading the written document: the events of the stream as elements.     *)
(***************************************************************************)
\* The number of elements open before the k-th event.
DepthBefore(k) == stream[k].d

IsStart(k, name) == stream[k].k = "start" /\ stream[k].n = name

\* The end of the element started at k: its end event, or past the last event
\* when the element was never ended.
EndOf(k) ==
    LET ends == {j \in (k + 1)..Len(stream) :
                    stream[j].k = "end" /\ DepthBefore(j) = DepthBefore(k) + 1}
    IN  IF ends = {} THEN Len(stream) + 1
        ELSE CHOOSE j \in ends : \A i \in ends : j <= i

IsClosed(k) == EndOf(k) <= Len(stream)

\* The events directly inside the element started at k.
Inside(k) ==
    {j \in (k + 1)..(EndOf(k) - 1) : DepthBefore(j) = DepthBefore(k) + 1}

HasAttribute(k, name) ==
    \E j \in Inside(k) : stream[j].k = "attr" /\ stream[j].n = name

Attribute(k, name) ==
    stream[CHOOSE j \in Inside(k) : stream[j].k = "attr" /\ stream[j].n = name].v

Children(k, name) == {j \in Inside(k) : IsStart(j, name)}

\* The text of the element started at k.
TextOf(k) == stream[CHOOSE j \in Inside(k) : stream[j].k = "text"].v

\* The i-th of a set of positions, in document order.
Nth(S, i) == CHOOSE j \in S : Cardinality({h \in S : h < j}) = i - 1

\* The elements of the given name at the given depth.
ElementsAt(name, depth) ==
    {k \in 1..Len(stream) : IsStart(k, name) /\ DepthBefore(k) = depth}

\* TestRun at depth 0, its blocks at depth 1, their records at depth 2.
TopLevelResults == ElementsAt("UnitTestResult", 2)
UnitTests == ElementsAt("UnitTest", 2)
TestEntries == ElementsAt("TestEntry", 2)
Summaries == ElementsAt("ResultSummary", 1)

DocumentIsComplete ==
    /\ stream # <<>>
    /\ IsStart(1, "TestRun")
    /\ EndOf(1) = Len(stream)

\* No assertion of the traversal failed.
AllAssertionsPassed(t) ==
    \A a \in 1..Len(t.allAssertionsWithExpansions) :
        t.allAssertionsWithExpansions[a].resultType \in {"Ok", "Info", "Warning"}

\* No assertion of any member of the result failed.
EveryMemberPassed(result) ==
    \A k \in 1..Len(result.traversals) : AllAssertionsPassed(result.traversals[k])

\* Every member of the result reached its teardown with no assertion failed.
EveryMemberOk(result) ==
    \A k \in 1..Len(result.traversals) :
        result.traversals[k].complete /\ AllAssertionsPassed(result.traversals[k])

\* The document was written from trx.m_results and trx still exists.
Written == pc = "written"

(***************************************************************************)
(* Properties of the written document.                                     *)
(***************************************************************************)
\* C2: a result is OK exactly when every assertion of every member traversal
\* passed, and the outcome of its top-level UnitTestResult is "Passed" when
\* every assertion of every member passed and "Failed" when one failed.
C2_ResultOkIffEveryAssertionPassed ==
    Written =>
        /\ \A r \in 1..Len(trx.m_results) :
              VstestResult_isOk(trx.m_results[r]) <=> EveryMemberPassed(trx.m_results[r])
        /\ \A i \in 1..Cardinality(TopLevelResults) :
              HasAttribute(Nth(TopLevelResults, i), "outcome") =>
                  Attribute(Nth(TopLevelResults, i), "outcome")
                      = IF EveryMemberPassed(trx.m_results[i]) THEN "Passed" ELSE "Failed"

\* C2 as amended: a result is OK exactly when every member traversal is OK,
\* that is, reached its teardown with every one of its assertions passed: one
\* failing assertion in any member, or one member that never completed, makes
\* the result not OK and the outcome of its top-level UnitTestResult
\* "Failed"; otherwise the outcome is "Passed".
C2_ResultOkIffEveryMemberOk ==
    Written =>
        /\ \A r \in 1..Len(trx.m_results) :
              /\ VstestResult_isOk(trx.m_results[r]) <=> EveryMemberOk(trx.m_results[r])
              /\ ~EveryMemberPassed(trx.m_results[r]) => ~VstestResult_isOk(trx.m_results[r])
        /\ \A i \in 1..Cardinality(TopLevelResults) :
              HasAttribute(Nth(TopLevelResults, i), "outcome") =>
                  Attribute(Nth(TopLevelResults, i), "outcome")
                      = IF EveryMemberOk(trx.m_results[i]) THEN "Passed" ELSE "Failed"

\* a group of two of which only the second has a failing assertion, and a
\* result whose member never completed though its assertion passed: both are
\* written as "Failed"
C2_Witness ==
    /\ Written
    /\ status.st = "ok"
    /\ Len(trx.m_results) = 2
    /\ Len(trx.m_results[1].traversals) = 2
    /\ AllAssertionsPassed(trx.m_results[1].traversals[1])
    /\ ~AllAssertionsPassed(trx.m_results[1].traversals[2])
    /\ Attribute(Nth(TopLevelResults, 1), "outcome") = "Failed"
    /\ Len(trx.m_results[2].traversals) = 1
    /\ ~trx.m_results[2].traversals[1].complete
    /\ AllAssertionsPassed(trx.m_results[2].traversals[1])
    /\ Attribute(Nth(TopLevelResults, 2), "outcome") = "Failed"

\* The results emitNewTrx aggregated from the log, as serialize received them.
Aggregated == parseTraversals(traversals, 0)

\* serialize was entered and the writing ended, in whichever way.
Serialized == pc \in {"written", "done", "failed"}

ResultRecord(i) == Nth(TopLevelResults, i)

InnerRecords(i) == Children(ResultRecord(i), "UnitTestResult")

\* The record of the k-th member of the i-th result: the top-level record of a
\* group of one, the k-th nested record of a larger group.
TraversalRecord(i, k) ==
    IF Len(Aggregated[i].traversals) = 1 THEN ResultRecord(i)
    ELSE Nth(InnerRecords(i), k)

\* The text of the child element of the given name, of the element at e.
ChildText(e, name) == TextOf(Nth(Children(e, name), 1))

IsPrefixOf(p, t) == Len(p) <= Len(t) /\ SubSeq(t, 1, Len(p)) = p

\* C3: a result of one traversal is written without the resultType flag and
\* without nested records; a result of several traversals is written with
\* resultType "DataDrivenTest" and one nested "DataDrivenDataRow" record per
\* member, in member order, each with the parent's execution id.
C3_DataDrivenFlagAndChildren ==
    Serialized =>
        \A i \in 1..Cardinality(TopLevelResults) :
            LET result == Aggregated[i]
                e == ResultRecord(i)
            IN  IF Len(result.traversals) = 1
                THEN ~HasAttribute(e, "resultType") /\ InnerRecords(i) = {}
                ELSE /\ HasAttribute(e, "resultType")
                     /\ Attribute(e, "resultType") = "DataDrivenTest"
                     /\ Cardinality(InnerRecords(i)) = Len(result.traversals)
                     /\ \A k \in 1..Len(result.traversals) :
                           LET c == Nth(InnerRecords(i), k)
                           IN  /\ HasAttribute(c, "resultType")
                               /\ Attribute(c, "resultType") = "DataDrivenDataRow"
                               /\ Attribute(c, "parentExecutionId")
                                      = result.testExecutionId
                               /\ Attribute(c, "startTime")
                                      = result.traversals[k].startTime

\* C3 as amended: a result of one traversal is written without the resultType
\* flag and without nested records; a result of several traversals is written
\* with resultType "DataDrivenTest" and its nested "DataDrivenDataRow" records
\* are those of its first members, in member order, each with the parent's
\* execution id: all of the members when serialization returned, and the
\* members up to the one whose writing failed when it did not.
C3_DataDrivenChildrenUpToFailure ==
    Serialized =>
        \A i \in 1..Cardinality(TopLevelResults) :
            LET result == Aggregated[i]
                e == ResultRecord(i)
            IN  IF Len(result.traversals) = 1
                THEN ~HasAttribute(e, "resultType") /\ InnerRecords(i) = {}
                ELSE /\ HasAttribute(e, "resultType")
                     /\ Attribute(e, "resultType") = "DataDrivenTest"
                     /\ Cardinality(InnerRecords(i)) <= Len(result.traversals)
                     /\ status.st = "ok" =>
                            Cardinality(InnerRecords(i)) = Len(result.traversals)
                     /\ \A k \in 1..Cardinality(InnerRecords(i)) :
                           LET c == Nth(InnerRecords(i), k)
                           IN  /\ HasAttribute(c, "resultType")
                               /\ Attribute(c, "resultType") = "DataDrivenDataRow"
                               /\ Attribute(c, "parentExecutionId")
                                      = result.testExecutionId
                               /\ Attribute(c, "startTime")
                                      = result.traversals[k].startTime

\* a group of two written with two nested records, before a group of one
C3_Witness ==
    /\ pc = "done"
    /\ Len(Aggregated) = 2
    /\ Len(Aggregated[1].traversals) = 2
    /\ Len(Aggregated[2].traversals) = 1
    /\ Attribute(ResultRecord(1), "resultType") = "DataDrivenTest"
    /\ Cardinality(InnerRecords(1)) = 2
    /\ ~HasAttribute(ResultRecord(2), "resultType")

\* The record of the k-th member of the i-th result was written to its end
\* by the writing itself, not ended by the unwinding of a failure.
RecordWritten(i, k) ==
    /\ i <= Cardinality(TopLevelResults)
    /\ Len(Aggregated[i].traversals) > 1 => k <= Cardinality(InnerRecords(i))
    /\ IsClosed(TraversalRecord(i, k))

\* C7: the record of every incomplete traversal that was written has an
\* Output element with a StdOut and a StdErr element, whose text is the
\* captured text even when that is empty, and an error Message that begins
\* with the "terminated unexpectedly" notice, whatever its assertions are.
C7_IncompleteTraversalAlwaysReported ==
    Written =>
        \A i \in 1..Len(Aggregated) :
            \A k \in 1..Len(Aggregated[i].traversals) :
                LET t == Aggregated[i].traversals[k]
                IN  (~t.complete /\ RecordWritten(i, k)) =>
                    LET e == TraversalRecord(i, k)
                    IN  /\ Cardinality(Children(e, "Output")) = 1
                        /\ LET o == Nth(Children(e, "Output"), 1)
                           IN  /\ Cardinality(Children(o, "StdOut")) = 1
                               /\ Cardinality(Children(o, "StdErr")) = 1
                               /\ ChildText(o, "StdOut") = t.stdOut
                               /\ ChildText(o, "StdErr") = t.stdErr
                               /\ Cardinality(Children(o, "ErrorInfo")) = 1
                               /\ LET info == Nth(Children(o, "ErrorInfo"), 1)
                                  IN  /\ Cardinality(Children(info, "Message")) = 1
                                      /\ IsPrefixOf(TerminatedNotice,
                                                    ChildText(info, "Message"))

\* a traversal that never completed, with no assertion and nothing captured,
\* written with an empty StdOut, an empty StdErr and the notice
C7_Witness ==
    /\ Written
    /\ status.st = "ok"
    /\ Len(Aggregated) = 1
    /\ Len(Aggregated[1].traversals) = 1
    /\ ~Aggregated[1].traversals[1].complete
    /\ Aggregated[1].traversals[1].allAssertionsWithExpansions = <<>>
    /\ Aggregated[1].traversals[1].stdOut = <<>>
    /\ Aggregated[1].traversals[1].stdErr = <<>>
    /\ RecordWritten(1, 1)
    /\ Cardinality(Children(ResultRecord(1), "Output")) = 1
    /\ ChildText(Nth(Children(ResultRecord(1), "Output"), 1), "StdOut") = <<>>

\* The one element of the given name directly under TestRun.
Block(name) == Nth(ElementsAt(name, 1), 1)

\* C8: the outcome of the ResultSummary of a serialized document is "Failed"
\* exactly when some result is not OK, and "Passed" otherwise; an empty log
\* gives no results and a complete document whose Results, TestDefinitions
\* and TestEntries elements are empty and whose summary is "Passed".
C8_SummaryFailedIffSomeResultNotOk ==
    Written =>
        /\ status.st = "ok" => Cardinality(Summaries) = 1
        /\ \A s \in Summaries :
              Attribute(s, "outcome")
                  = IF \E r \in 1..Len(trx.m_results) :
                           ~EveryMemberOk(trx.m_results[r])
                    THEN "Failed" ELSE "Passed"
        /\ traversals = <<>> =>
               /\ trx.m_results = <<>>
               /\ status.st = "ok"
               /\ DocumentIsComplete
               /\ \A name \in {"Results", "TestDefinitions", "TestEntries"} :
                      /\ Cardinality(ElementsAt(name, 1)) = 1
                      /\ IsClosed(Block(name))
                      /\ Inside(Block(name)) = {}
               /\ Attribute(Nth(Summaries, 1), "outcome") = "Passed"

\* two results, the first OK and the second not, summarised as "Failed"
C8_Witness ==
    /\ Written
    /\ status.st = "ok"
    /\ Len(trx.m_results) = 2
    /\ EveryMemberOk(trx.m_results[1])
    /\ ~EveryMemberOk(trx.m_results[2])
    /\ Attribute(Nth(Summaries, 1), "outcome") = "Failed"

\* C9: a result whose first traversal has no section is written with the
\* empty test name in its result record and in its test definition, and has
\* its test entry; serialization reads no section that does not exist.
C9_AbsentNamesAreDefaulted ==
    Serialized =>
        /\ ~status.oob
        /\ (pc = "done") =>
              \A i \in 1..Len(Aggregated) :
                  Aggregated[i].traversals[1].allSectionInfo = <<>> =>
                      /\ Attribute(ResultRecord(i), "testName") = <<>>
                      /\ Attribute(Nth(UnitTests, i), "name") = <<>>
                      /\ Attribute(Nth(TestEntries, i), "testId") = Aggregated[i].testId

\* C10: after serialize has returned, the caller's result sequence holds the
\* results it held before the call: the same identifiers and the same member
\* traversals, in the same order.
C10_SerializeLeavesResultsAsPassed ==
    (pc = "done") => results = Aggregated

(***************************************************************************)
(* Properties of serializeSourceInfo.                                      *)
(***************************************************************************)
\* The path as the line is to show it: without the prefix when the path
\* begins with it, whole when it does not; every backslash as a slash.
RelativePath(prefix, file) ==
    SlashNormalized(IF IsPrefixOf(prefix, file)
                    THEN SubSeq(file, Len(prefix) + 1, Len(file))
                    ELSE file)

\* C11: serializeSourceInfo never fails, and writes
\* "at Catch.Module.Method() in <path>:line <line>" where <path> is the file
\* path without the source prefix when it begins with the prefix and the
\* whole path when it does not (a prefix longer than the path included),
\* every backslash written as a forward slash.
C11_SourceInfoStripsPrefix ==
    (pc = "source_out") =>
        /\ ~sourceText.threw
        /\ sourceText.text
               = <<"at Catch.Module.Method() in ">>
                 \o RelativePath(sourceInfo.prefix, sourceInfo.file)
                 \o <<":line ">> \o ToDecimal(sourceInfo.line) \o <<"\n">>

(***************************************************************************)
(* Properties of the reporter events.                                      *)
(***************************************************************************)
\* The documents the sink holds: the TestRun elements that are in no element.
DocumentsInSink == ElementsAt("TestRun", 0)

\* The document written last.
LastDocument == CHOOSE k \in DocumentsInSink : \A j \in DocumentsInSink : j <= k

\* The blocks of a document, in the order serialize writes them.
DocumentBlocks ==
    {"Times", "Results", "TestDefinitions", "TestLists", "TestEntries",
     "ResultSummary"}

\* The last document is TestRun opened through its closing, which is the last
\* event of the sink, with every block written once.
LastDocumentIsComplete ==
    /\ DocumentsInSink # {}
    /\ IsClosed(LastDocument)
    /\ EndOf(LastDocument) = Len(stream)
    /\ \A name \in DocumentBlocks :
          Cardinality(Children(LastDocument, name)) = 1

\* The last document was ended by the unwinding of an exception: its TestRun
\* is closed by the last event of the sink, and it has no summary.
LastDocumentIsCutShort ==
    /\ DocumentsInSink # {}
    /\ IsClosed(LastDocument)
    /\ EndOf(LastDocument) = Len(stream)
    /\ Children(LastDocument, "ResultSummary") = {}

\* What one event does: with incremental output sectionStarting and
\* sectionTraversalEnded discard the output and enter emitNewTrx, and
\* testRunEnded leaves the sink as it is; without it testRunEnded enters
\* emitNewTrx with the sink as it is, and the other events write nothing.
EventEmitsAsConfigured ==
    (eventCount' = eventCount + 1) =>
        IF lastEvent' = "testRunEnded"
        THEN IF incrementalOutputSupported
             THEN stream' = stream /\ pc' = pc
             ELSE stream' = stream /\ pc' = "start"
        ELSE IF incrementalOutputSupported
             THEN stream' = <<>> /\ pc' = "start"
             ELSE stream' = stream /\ pc' = "idle"

\* What the claim says of the sink, for a run that ends once: at most one
\* document, from the first event of the sink on; nothing while emitNewTrx
\* has not reached the writing; nothing before testRunEnded without
\* incremental output; and one complete document once the emission is over.
SinkHoldsOneCompleteDocument ==
    runsEnded <= 1 =>
        /\ Cardinality(DocumentsInSink) <= 1
        /\ stream # <<>> => IsStart(1, "TestRun")
        /\ pc \in {"start", "parsed", "constructed"} => stream = <<>>
        /\ (~incrementalOutputSupported /\ runsEnded = 0) => stream = <<>>
        /\ pc \in {"done", "failed"} => LastDocumentIsComplete

\* C12: over every sequence of reporter events, with incremental output each
\* sectionStarting and each sectionTraversalEnded discards the output written
\* before and writes one complete document, and testRunEnded writes nothing;
\* without incremental output nothing is written before testRunEnded, which
\* writes one complete document; the sink never holds more than one
\* document, nor a document after an older one.
C12_EachEmissionReplacesTheDocument ==
    [](SinkHoldsOneCompleteDocument) /\ [][EventEmitsAsConfigured]_vars

\* What the sink holds in every state.  With incremental output: at most
\* one document, and nothing while emitNewTrx has not reached the writing.
\* Without: one document for every testRunEnded whose emitNewTrx has reached
\* the writing, so nothing before the first and one document for a run that
\* ends once.  The last document is complete when serialize has returned, is
\* cut short, without its summary, when an exception ended serialize, and is
\* left open when the out-of-range read ended the process.
SinkHoldsTheEmittedDocuments ==
    /\ stream # <<>> => IsStart(1, "TestRun")
    /\ incrementalOutputSupported =>
          /\ Cardinality(DocumentsInSink) <= 1
          /\ pc \in {"start", "parsed", "constructed"} => stream = <<>>
    /\ ~incrementalOutputSupported =>
          Cardinality(DocumentsInSink)
              = IF pc \in {"start", "parsed", "constructed"}
                THEN runsEnded - 1 ELSE runsEnded
    /\ pc = "done" => LastDocumentIsComplete
    /\ pc = "failed" => LastDocumentIsCutShort
    /\ (pc = "written" /\ status.st = "ok") => LastDocumentIsComplete
    /\ (pc = "written" /\ status.st = "crashed") =>
          DocumentsInSink # {} /\ ~IsClosed(LastDocument)

\* C12 as amended: over every sequence of reporter events, with incremental
\* output each sectionStarting and each sectionTraversalEnded discards the
\* output written before and writes one document, and testRunEnded writes
\* nothing, so the sink never holds more than one document; without
\* incremental output sectionStarting and sectionTraversalEnded write
\* nothing and testRunEnded writes one document after what the sink holds,
\* so the sink holds one document for a run that ends once.  The document
\* written is complete when serialize returns; it is cut short, without its
\* summary, when an exception ends serialize, and left open when the
\* out-of-range read ends the process.
C12_OneDocumentPerEmission ==
    [](SinkHoldsTheEmittedDocuments) /\ [][EventEmitsAsConfigured]_vars

\* the second event of a run with incremental output has returned: the
\* document it wrote is complete and the only one in the sink
C12_Witness ==
    /\ incrementalOutputSupported
    /\ eventCount = 2
    /\ lastEvent = "sectionTraversalEnded"
    /\ pc = "done"
    /\ traversals = <<TPassA, TFailA>>
    /\ Cardinality(DocumentsInSink) = 1
    /\ LastDocumentIsComplete

=============================================================================
